---- MODULE Spec2Model ----
(***************************************************************************)
(* The oil price dashboard of app.py as a state machine.                   *)
(*                                                                         *)
(* One step is one run of the script (main): the widgets are read, the     *)
(* prices are fetched through the 60 s response cache, the two history     *)
(* buffers of the session are extended and cut to 100 entries, and the     *)
(* spread and the history table are displayed.                             *)
(*                                                                         *)
(* Prices are amounts in cents (75.00 is 7500), times are whole seconds    *)
(* of a clock that does not run backwards.                                 *)
(***************************************************************************)
EXTENDS Integers, Sequences, FiniteSets, TLC

VARIABLES
    api_key,        \* value of the "Commodities-API Key" text input ("" when empty)
    auto_refresh,   \* value of the "Auto-refresh every 60s" checkbox
    pc,             \* "idle": script ended; "sleep": in time.sleep(60); "rerun": st.rerun() after the button
    now,            \* the clock, in seconds
    cache,          \* st.cache_data of fetch_oil_prices: api key -> entry
    price_history,  \* st.session_state.price_history: [wti, brent] -> list of samples
    rows,           \* history_data built by the last run (empty when it built none)
    last,           \* what the last script run did, the requests.get calls it issued included
    recorded,       \* every sample ever appended, per series (observation)
    cleared,        \* api key -> the entry "Refresh Now" cleared, until the next fetch for the key
    origin,         \* api key -> the two responses the cached value was built from (observation)
    prev,           \* the run before the last one, in brief (observation)
    runs,           \* number of script runs counted against MaxRuns
    probe,          \* calls of fetch_oil_prices made outside a session, with what each returned
    ships_df,       \* ship_flows_mock.py: the ships table (load_ships)
    ships_pos_df,   \* ship_flows_mock.py: the positions compute_positions returned
    flows_df        \* ship_flows_mock.py: the flows compute_positions returned

vars == <<api_key, auto_refresh, pc, now, cache, price_history,
          rows, last, recorded, cleared, origin, prev, runs, probe,
          ships_df, ships_pos_df, flows_df>>

\* the ship flows page, a script of its own
fleet == <<ships_df, ships_pos_df, flows_df>>

\* what a script run of the dashboard leaves alone
aside == <<probe, fleet>>

----------------------------------------------------------------------------
(* Bounds of the model *)

\* script runs explored in one session
MaxRuns == 3
\* how many samples short of the cap, at most, the long-running session starts
WarmGap == 1
\* longest series of the table inputs drawn for the history table
MaxRows == 3
\* calls of fetch_oil_prices compared with each other
MaxProbes == 2
\* rows of the ships table
MaxShips == 2
\* bits of the significand of a floating point number (float64 has 53)
FloatBits == 6

(* Program constants *)

CACHE_DURATION == 60
MAX_HISTORY == 100
SLEEP_SECONDS == 60

Keys == {"k1", "k2"}
Series == {"wti", "brent"}

\* seconds that may pass between two script runs
Delays == {20, 60}

\* rates the upstream API may report, in cents
Rates(s) == IF s = "wti" THEN {7500} ELSE {7850}

----------------------------------------------------------------------------
(* The upstream API: what one requests.get may come back with *)

NetErr == [kind |-> "neterr", rate |-> 0]      \* requests.get raises RequestException (timeout included)
Http500 == [kind |-> "http500", rate |-> 0]    \* status_code 500
NoRate == [kind |-> "norate", rate |-> 0]      \* 200, body without data.rates.<SYMBOL>
\* 200, a body on which .json() or .get raises an exception that is not a
\* RequestException (a JSON body of another shape: AttributeError on .get)
BadJson == [kind |-> "badjson", rate |-> 0]
Ok(p) == [kind |-> "ok", rate |-> p]           \* 200, body with data.rates.<SYMBOL> = p

Responses(s) == {NetErr, Http500, NoRate, BadJson} \cup {Ok(p) : p \in Rates(s)}

StatusCode(r) == IF r.kind = "http500" THEN 500 ELSE 200

\* data.get('data', {}).get('rates', {}).get(SYMBOL, 0)
RateOrZero(r) == IF r.kind = "ok" THEN r.rate ELSE 0

None == [tag |-> "None"]

----------------------------------------------------------------------------
(* fetch_oil_prices, app.py 64-112 *)

\* an entry whose success tells whether the body held the rate
SeriesEntryFlagged(r, t) ==
    [price |-> RateOrZero(r), timestamp |-> t, success |-> r.kind = "ok"]

\* one entry of the returned dict; success is the literal True of lines 95 and 100
SeriesEntry(r, t) == [price |-> RateOrZero(r), timestamp |-> t, success |-> TRUE]

\* line 87 with "or" for "and": one 200 is enough to build the dict
FetchOilPricesEitherOk(wr, br, t) ==
    IF wr.kind = "neterr" THEN [value |-> None, branch |-> "network", issued |-> 1]
    ELSE IF br.kind = "neterr" THEN [value |-> None, branch |-> "network", issued |-> 2]
    ELSE IF StatusCode(wr) = 200 \/ StatusCode(br) = 200
         THEN IF wr.kind = "badjson" \/ br.kind = "badjson"
              THEN [value |-> None, branch |-> "unexpected", issued |-> 2]
              ELSE [value |-> [tag |-> "dict",
                               wti |-> SeriesEntry(wr, t),
                               brent |-> SeriesEntry(br, t)],
                    branch |-> "return", issued |-> 2]
         ELSE [value |-> None, branch |-> "status", issued |-> 2]

\* lines 107-112 with one handler, "except Exception", showing the network message
FetchOilPricesOneExcept(wr, br, t) ==
    IF wr.kind = "neterr" THEN [value |-> None, branch |-> "network", issued |-> 1]
    ELSE IF br.kind = "neterr" THEN [value |-> None, branch |-> "network", issued |-> 2]
    ELSE IF StatusCode(wr) = 200 /\ StatusCode(br) = 200
         THEN IF wr.kind = "badjson" \/ br.kind = "badjson"
              THEN [value |-> None, branch |-> "network", issued |-> 2]
              ELSE [value |-> [tag |-> "dict",
                               wti |-> SeriesEntry(wr, t),
                               brent |-> SeriesEntry(br, t)],
                    branch |-> "return", issued |-> 2]
         ELSE [value |-> None, branch |-> "status", issued |-> 2]

\* the body of fetch_oil_prices on the responses wr (WTI) and br (BRENT) at time t:
\* the value returned, the branch that returned it, the requests.get calls issued
FetchOilPrices(wr, br, t) ==
    IF wr.kind = "neterr" THEN [value |-> None, branch |-> "network", issued |-> 1]
    ELSE IF br.kind = "neterr" THEN [value |-> None, branch |-> "network", issued |-> 2]
    ELSE IF StatusCode(wr) = 200 /\ StatusCode(br) = 200
         THEN IF wr.kind = "badjson" \/ br.kind = "badjson"
              THEN [value |-> None, branch |-> "unexpected", issued |-> 2]
              ELSE [value |-> [tag |-> "dict",
                               wti |-> SeriesEntry(wr, t),
                               brent |-> SeriesEntry(br, t)],
                    branch |-> "return", issued |-> 2]
         ELSE [value |-> None, branch |-> "status", issued |-> 2]

(* st.cache_data(ttl=CACHE_DURATION), app.py 63 *)

NoEntry == [present |-> FALSE, value |-> None, at |-> 0]

EmptyCache == [k \in Keys |-> NoEntry]

\* a cache that never serves an entry
CacheNeverFresh(e, t) == FALSE

\* an entry is served until its time-to-live has passed
CacheFresh(e, t) == e.present /\ t < e.at + CACHE_DURATION

\* a clear that leaves the entries in place
CacheClearNothing(c) == c

\* st.cache_data.clear(), app.py 203
CacheClear(c) == EmptyCache

\* the decorated call fetch_oil_prices(api_key) at time t: a fresh entry is
\* returned as it is, otherwise the body runs and its return value is stored
CachedFetch(c, k, wr, br, t) ==
    IF CacheFresh(c[k], t)
    THEN [value |-> c[k].value, hit |-> TRUE, branch |-> "cached", issued |-> 0,
          cache |-> c]
    ELSE LET f == FetchOilPrices(wr, br, t)
         IN [value |-> f.value, hit |-> FALSE, branch |-> f.branch, issued |-> f.issued,
             cache |-> [c EXCEPT ![k] = [present |-> TRUE, value |-> f.value, at |-> t]]]

----------------------------------------------------------------------------
(* The history buffers, app.py 238-258 *)

EmptyHistory == [wti |-> <<>>, brent |-> <<>>]

Sample(p, t) == [price |-> p, timestamp |-> t]

\* list.insert(0, s)
PrependSample(l, s) == <<s>> \o l

\* an append that skips a sample whose price repeats the last one
AppendUnlessSamePrice(l, s) ==
    IF l # <<>> /\ l[Len(l)].price = s.price THEN l ELSE Append(l, s)

\* list.append
AppendSample(l, s) == Append(l, s)

\* no cut at all
KeepAll(l) == l

\* l[:100]: the cut taken from the wrong end
KeepFirst(l) ==
    IF Len(l) > MAX_HISTORY THEN SubSeq(l, 1, MAX_HISTORY) ELSE l

\* l[-100:] when len(l) > 100
KeepLast(l) ==
    IF Len(l) > MAX_HISTORY
    THEN SubSeq(l, Len(l) - MAX_HISTORY + 1, Len(l))
    ELSE l

\* lines 242-258 for the dict cp at current_time t
Record(h, cp, t) ==
    LET w == IF cp.wti.success
             THEN AppendSample(h.wti, Sample(cp.wti.price, t)) ELSE h.wti
        b == IF cp.brent.success
             THEN AppendSample(h.brent, Sample(cp.brent.price, t)) ELSE h.brent
    IN [wti |-> KeepLast(w), brent |-> KeepLast(b)]

(* The spread, app.py 297-299 *)

NoSpread == [shown |-> FALSE, value |-> 0]

Spread(cp) == cp.brent.price - cp.wti.price

SpreadDisplay(cp) ==
    IF cp.wti.success /\ cp.brent.success
    THEN [shown |-> TRUE, value |-> Spread(cp)]
    ELSE NoSpread

(* The history table, app.py 317-335 *)

\* f"${price:.2f}" of an amount in cents: dollars and the two decimals
format_price(c) == <<c \div 100, c % 100>>

\* strftime('%H:%M:%S') of a time in seconds
StrfTime(t) == <<(t \div 3600) % 24, (t \div 60) % 60, t % 60>>

\* a cell the row dict has no key for, and the '' the Timestamp starts as
Blank == <<>>

Max(a, b) == IF a > b THEN a ELSE b

\* the loop body with the BRENT timestamp taking precedence
TableRowBrentTime(h, i) ==
    LET row0 == [Timestamp |-> Blank, WTI |-> Blank, Brent |-> Blank]
        row1 == IF i <= Len(h.wti)
                THEN [row0 EXCEPT !.WTI = format_price(h.wti[i].price),
                                  !.Timestamp = StrfTime(h.wti[i].timestamp)]
                ELSE row0
        row2 == IF i <= Len(h.brent)
                THEN [row1 EXCEPT !.Brent = format_price(h.brent[i].price),
                                  !.Timestamp = StrfTime(h.brent[i].timestamp)]
                ELSE row1
    IN row2

\* one pass of the loop body, lines 327-335, for the 1-based index i
TableRow(h, i) ==
    LET row0 == [Timestamp |-> Blank, WTI |-> Blank, Brent |-> Blank]
        row1 == IF i <= Len(h.wti)
                THEN [row0 EXCEPT !.WTI = format_price(h.wti[i].price),
                                  !.Timestamp = StrfTime(h.wti[i].timestamp)]
                ELSE row0
        row2 == IF i <= Len(h.brent)
                THEN [row1 EXCEPT !.Brent = format_price(h.brent[i].price),
                                  !.Timestamp = IF row1.Timestamp = Blank
                                                THEN StrfTime(h.brent[i].timestamp)
                                                ELSE row1.Timestamp]
                ELSE row1
    IN row2

\* history_data, lines 323-335
AsRows(h) == [i \in 1..Max(Len(h.wti), Len(h.brent)) |-> TableRow(h, i)]

----------------------------------------------------------------------------
(* The session *)

NoResp == [kind |-> "none", rate |-> 0]

NoSource == [wti |-> NoResp, brent |-> NoResp]

\* a request of the fetch came back with a transport error, a non-200 status
\* or a body that cannot be parsed
Faulty(wr, br) ==
    \/ wr.kind \in {"neterr", "http500", "badjson"}
    \/ br.kind \in {"neterr", "http500", "badjson"}

NoRun == [kind |-> "none", key |-> "", hit |-> FALSE, branch |-> "none",
          result |-> None, src |-> NoSource, fault |-> FALSE, at |-> 0,
          spread |-> NoSpread, before |-> EmptyHistory, entry |-> NoEntry,
          stale |-> NoEntry, issued |-> 0]

\* what is kept of a run once the next one has taken place
Brief(r) == [kind |-> r.kind, hit |-> r.hit, at |-> r.at, result |-> r.result,
             entry |-> r.entry,
             len |-> [s \in Series |-> Len(r.before[s])]]

\* the ship flows page is not open
NoFleet == ships_df = <<>> /\ ships_pos_df = <<>> /\ flows_df = <<>>

\* the first load of the page: no key typed, the checkbox at its default (line 199),
\* main has returned at line 228
Init ==
    /\ api_key = ""
    /\ auto_refresh = TRUE
    /\ pc = "idle"
    /\ now = 0
    /\ cache = EmptyCache
    /\ price_history = EmptyHistory
    /\ rows = <<>>
    /\ last = NoRun
    /\ prev = Brief(NoRun)
    /\ recorded = EmptyHistory
    /\ cleared = EmptyCache
    /\ origin = [k \in Keys |-> NoSource]
    /\ runs = 0
    /\ probe = <<>>
    /\ NoFleet

\* where main ends up: line 228 returns before the auto-refresh, line 345-347 sleeps
EndOfRun(k, a) == IF k # "" /\ a THEN "sleep" ELSE "idle"

\* seconds to the next run: a sleeping script reruns only after time.sleep(60)
Gaps == IF pc = "sleep" THEN {d \in Delays : d >= SLEEP_SECONDS} ELSE Delays

\* One run of main from line 225 on, with the widget values k and a, at time t,
\* the upstream answering wr and br if it is asked
Main(k, a, t, wr, br) ==
    /\ api_key' = k
    /\ auto_refresh' = a
    /\ now' = t
    /\ runs' = runs + 1
    /\ pc' = EndOfRun(k, a)
    /\ prev' = Brief(last)
    /\ UNCHANGED aside
    /\ IF k = ""
       THEN /\ last' = [NoRun EXCEPT !.kind = "nokey", !.at = t,
                                     !.before = price_history]
            /\ rows' = <<>>
            /\ UNCHANGED <<cache, price_history, recorded, cleared, origin>>
       ELSE LET f == CachedFetch(cache, k, wr, br, t)
                cp == f.value
                src == IF f.hit THEN origin[k]
                       ELSE IF cp = None THEN NoSource
                       ELSE [wti |-> wr, brent |-> br]
                h == IF cp # None THEN Record(price_history, cp, t) ELSE price_history
            IN /\ cache' = f.cache
               /\ origin' = [origin EXCEPT ![k] = src]
               /\ cleared' = [cleared EXCEPT ![k] = NoEntry]
               /\ price_history' = h
               /\ recorded' =
                    IF cp = None THEN recorded
                    ELSE [s \in Series |->
                            IF cp[s].success
                            THEN Append(recorded[s], Sample(cp[s].price, t))
                            ELSE recorded[s]]
               /\ rows' = IF cp # None /\ (h.wti # <<>> \/ h.brent # <<>>)
                          THEN AsRows(h) ELSE <<>>
               /\ last' = [kind |-> "cycle", key |-> k, hit |-> f.hit,
                           branch |-> f.branch, result |-> cp, src |-> src,
                           fault |-> ~f.hit /\ Faulty(wr, br), at |-> t,
                           spread |-> IF cp # None THEN SpreadDisplay(cp) ELSE NoSpread,
                           before |-> price_history, entry |-> cache[k],
                           stale |-> cleared[k], issued |-> f.issued]

\* the answers worth drawing for a run with key k at time t: none when the
\* script returns at line 228 or the cache answers, and no BRENT answer when
\* the WTI request has raised and the BRENT request is never made
Upstream(k, t) ==
    IF k # "" /\ ~CacheFresh(cache[k], t)
    THEN {<<NetErr, NoResp>>}
         \cup ((Responses("wti") \ {NetErr}) \X Responses("brent"))
    ELSE {<<NoResp, NoResp>>}

\* time.sleep(60) is over and st.rerun() starts the script again (lines 345-347)
AutoRefresh ==
    /\ runs < MaxRuns
    /\ pc = "sleep"
    /\ \E d \in Gaps :
         \E up \in Upstream(api_key, now + d) :
           Main(api_key, auto_refresh, now + d, up[1], up[2])

\* the user reruns the script: by typing another key (lines 192-196), by
\* ticking the checkbox (line 199), or from the application menu with the
\* widgets as they are; one widget changes per interaction
UserInput ==
    /\ runs < MaxRuns
    /\ pc \in {"idle", "sleep"}
    /\ \E k \in Keys \cup {""}, a \in BOOLEAN, d \in Gaps :
         /\ k = api_key \/ a = auto_refresh
         /\ \E up \in Upstream(k, now + d) :
              Main(k, a, now + d, up[1], up[2])

\* the user presses "Refresh Now": the cache is cleared and st.rerun() ends
\* this run at line 204
RefreshNow ==
    /\ runs < MaxRuns
    /\ pc \in {"idle", "sleep"}
    /\ \E d \in Gaps :
         /\ now' = now + d
         /\ last' = [NoRun EXCEPT !.kind = "clear", !.at = now + d,
                                  !.before = price_history]
    /\ prev' = Brief(last)
    /\ cleared' = [k \in Keys |-> IF cache[k].present THEN cache[k] ELSE cleared[k]]
    /\ cache' = CacheClear(cache)
    /\ pc' = "rerun"
    /\ runs' = runs + 1
    /\ rows' = <<>>
    /\ UNCHANGED <<api_key, auto_refresh, price_history, recorded, origin>>
    /\ UNCHANGED aside

\* the run st.rerun() of line 204 asked for, with the button released
Rerun ==
    /\ pc = "rerun"
    /\ \E up \in Upstream(api_key, now) :
         Main(api_key, auto_refresh, now, up[1], up[2])

Next == AutoRefresh \/ UserInput \/ RefreshNow \/ Rerun

Spec == Init /\ [][Next]_vars

----------------------------------------------------------------------------
(* A session that has been running for a while *)

\* samples in each buffer of the long-running session: the cap or a few less
WarmLens == {MAX_HISTORY - g : g \in 0..WarmGap}

WarmResult(t) == [tag |-> "dict",
                  wti |-> SeriesEntry(Ok(7500), t),
                  brent |-> SeriesEntry(Ok(7850), t)]

\* the buffers after n auto-refresh cycles, one every 60 s, each fetching 75.00 and 78.50
WarmHistory(n) ==
    [wti |-> [i \in 1..n |-> Sample(7500, SLEEP_SECONDS * i)],
     brent |-> [i \in 1..n |-> Sample(7850, SLEEP_SECONDS * i)]]

\* the state n such cycles with the key "k1" lead to: the script sleeps at line 346
WarmState(n) ==
    LET t == SLEEP_SECONDS * n
        e == [present |-> TRUE, value |-> WarmResult(t), at |-> t]
        src == [wti |-> Ok(7500), brent |-> Ok(7850)]
    IN /\ api_key = "k1"
       /\ auto_refresh = TRUE
       /\ pc = "sleep"
       /\ now = t
       /\ cache = [EmptyCache EXCEPT !["k1"] = e]
       /\ price_history = WarmHistory(n)
       /\ rows = AsRows(WarmHistory(n))
       /\ last = [kind |-> "cycle", key |-> "k1", hit |-> FALSE, branch |-> "return",
                  result |-> WarmResult(t), src |-> src, fault |-> FALSE, at |-> t,
                  spread |-> SpreadDisplay(WarmResult(t)),
                  before |-> WarmHistory(n - 1),
                  entry |-> [present |-> TRUE, value |-> WarmResult(t - SLEEP_SECONDS),
                             at |-> t - SLEEP_SECONDS],
                  stale |-> NoEntry, issued |-> 2]
       /\ prev = [kind |-> "cycle", hit |-> FALSE, at |-> t - SLEEP_SECONDS,
                  result |-> WarmResult(t - SLEEP_SECONDS),
                  entry |-> [present |-> TRUE,
                             value |-> WarmResult(t - 2 * SLEEP_SECONDS),
                             at |-> t - 2 * SLEEP_SECONDS],
                  len |-> [s \in Series |-> n - 2]]
       /\ recorded = WarmHistory(n)
       /\ cleared = EmptyCache
       /\ origin = [k \in Keys |-> IF k = "k1" THEN src ELSE NoSource]
       /\ runs = 1
       /\ probe = <<>>
       /\ NoFleet

\* the last of those cycles counts as the first run of the session followed
InitWarm == \E n \in WarmLens : WarmState(n)

SpecWarm == InitWarm /\ [][Next]_vars

----------------------------------------------------------------------------
(* The history table on its own *)

\* n samples of price p, one every 60 s from time t0 on
Samples(n, p, t0) == [i \in 1..n |-> Sample(p, t0 + SLEEP_SECONDS * (i - 1))]

\* buffers of any two lengths up to MaxRows, the two series sampled at different times
InitRows ==
    /\ \E n \in 0..MaxRows, m \in 0..MaxRows, p \in {0, 7500}, q \in {0, 7850},
          t0 \in {0, 3590}, off \in {0, 7} :
         price_history = [wti |-> Samples(n, p, t0), brent |-> Samples(m, q, t0 + off)]
    /\ api_key = "k1"
    /\ auto_refresh = FALSE
    /\ pc = "idle"
    /\ now = 4000
    /\ cache = EmptyCache
    /\ rows = <<>>
    /\ last = NoRun
    /\ prev = Brief(NoRun)
    /\ recorded = price_history
    /\ cleared = EmptyCache
    /\ origin = [k \in Keys |-> NoSource]
    /\ runs = 0
    /\ probe = <<>>
    /\ NoFleet

\* lines 317-335: the table is built when one of the buffers is not empty
RenderTable ==
    /\ runs = 0
    /\ price_history.wti # <<>> \/ price_history.brent # <<>>
    /\ rows' = AsRows(price_history)
    /\ runs' = 1
    /\ UNCHANGED <<api_key, auto_refresh, pc, now, cache, price_history,
                   last, prev, recorded, cleared, origin>>
    /\ UNCHANGED aside

SpecRows == InitRows /\ [][RenderTable]_vars

----------------------------------------------------------------------------
(* fetch_oil_prices on its own *)

\* the pairs of answers the two requests.get of lines 84-85 may come back with;
\* the second request is not issued when the first one raises
Answers == {<<NetErr, NoResp>>}
           \cup ((Responses("wti") \ {NetErr}) \X Responses("brent"))

\* one call of the function body (lines 78-112), noted with what the caller gets
\* (value) and the message the function displayed on its way out (branch)
Probe ==
    /\ Len(probe) < MaxProbes
    /\ \E up \in Answers :
         LET f == FetchOilPrices(up[1], up[2], now)
         IN probe' = Append(probe, [wr |-> up[1], br |-> up[2],
                                    value |-> f.value, branch |-> f.branch])
    /\ UNCHANGED <<api_key, auto_refresh, pc, now, cache, price_history,
                   rows, last, recorded, cleared, origin, prev, runs>>
    /\ UNCHANGED fleet

SpecFetch == Init /\ [][Probe]_vars

----------------------------------------------------------------------------
(* ship_flows_mock.py: the positions of the ships                          *)
(*                                                                         *)
(* lat, lon, progress and volume are floating point numbers (pandas reads  *)
(* them as float64), and every + - * / rounds its result to the nearest    *)
(* number the format holds, ties to the even significand. The format here  *)
(* is binary floating point with a significand of FloatBits bits in place  *)
(* of 53. A number is held as the count of units it is made of, one unit   *)
(* being 1/Unit, so that 1.0 is Unit.                                      *)

Unit == 2^10

Abs(x) == IF x < 0 THEN -x ELSE x

\* bits of the natural number a
RECURSIVE Bits(_)
Bits(a) == IF a = 0 THEN 0 ELSE 1 + Bits(a \div 2)

\* the floating point number nearest to x units
RoundFloat(x) ==
    LET a == Abs(x)
        q == IF Bits(a) > FloatBits THEN 2^(Bits(a) - FloatBits) ELSE 1
        lo == (a \div q) * q
        r == a - lo
        m == IF 2 * r < q THEN lo
             ELSE IF 2 * r > q THEN lo + q
             ELSE IF (lo \div q) % 2 = 0 THEN lo ELSE lo + q
    IN IF x < 0 THEN -m ELSE m

\* the floating point number nearest to n/d units (d > 0): the quotient is
\* taken to half a unit, its last bit set when the division left a remainder
RoundRatio(n, d) ==
    LET a == Abs(n)
        v == 2 * (a \div d) + (IF a % d = 0 THEN 0 ELSE 1)
        m == RoundFloat(v) \div 2
    IN IF n < 0 THEN -m ELSE m

FAdd(x, y) == RoundFloat(x + y)
FSub(x, y) == RoundFloat(x - y)
FMul(x, y) == RoundRatio(x * y, Unit)
FDiv(x, y) == RoundRatio(x * Unit, y)

\* the float a decimal of the data reads as: n is the decimal in 1/10000
Float(n) == RoundRatio(n * Unit, 10000)

\* load_ports: the mock ports of lines 14-20, and the two ports of a
\* ports.csv that places one at (0, 0) and one at (10, 10)
ports_df ==
    << [name |-> "Houston",    lat |-> Float(297522), lon |-> Float(-953584)],
       [name |-> "Rotterdam",  lat |-> Float(519244), lon |-> Float(44777)],
       [name |-> "Singapore",  lat |-> Float(13521),  lon |-> Float(1038198)],
       [name |-> "Ras Tanura", lat |-> Float(266401), lon |-> Float(501583)],
       [name |-> "Fujairah",   lat |-> Float(251288), lon |-> Float(563265)],
       [name |-> "Zero",       lat |-> Float(0),      lon |-> Float(0)],
       [name |-> "Ten",        lat |-> Float(100000), lon |-> Float(100000)] >>

\* get_port_df: the first row of that name, None when there is none
get_port_df(df, name) ==
    IF \E i \in 1..Len(df) : df[i].name = name
    THEN df[CHOOSE i \in 1..Len(df) :
               /\ df[i].name = name
               /\ \A j \in 1..(i - 1) : df[j].name # name]
    ELSE None

\* ships["volume"].max()
MaxVolume(ships) ==
    CHOOSE v \in {ships[i].volume : i \in 1..Len(ships)} :
        \A i \in 1..Len(ships) : ships[i].volume <= v

\* lines 57 and 58: start + (end - start) * progress
Interpolate(a, b, progress) == FAdd(a, FMul(FSub(b, a), progress))

\* (ship["volume"] / max_vol) * 50
Width(volume, max_vol) == FMul(FDiv(volume, max_vol), Float(500000))

\* the loop of compute_positions over the ships from the i-th on: the rows
\* appended to positions and to flows; a ship of an unknown port is skipped
RECURSIVE PositionsFrom(_, _, _)
PositionsFrom(ports, ships, i) ==
    IF i > Len(ships) THEN [positions |-> <<>>, flows |-> <<>>]
    ELSE LET ship == ships[i]
             start == get_port_df(ports, ship.from)
             end == get_port_df(ports, ship.to)
             rest == PositionsFrom(ports, ships, i + 1)
             width == Width(ship.volume, MaxVolume(ships))
         IN IF start = None \/ end = None THEN rest
            ELSE [positions |->
                      <<[name |-> ship.name,
                         lat |-> Interpolate(start.lat, end.lat, ship.progress),
                         lon |-> Interpolate(start.lon, end.lon, ship.progress),
                         from |-> ship.from, to |-> ship.to,
                         volume |-> ship.volume, width |-> width]>>
                      \o rest.positions,
                  flows |->
                      <<[from_lat |-> start.lat, from_lon |-> start.lon,
                         to_lat |-> end.lat, to_lon |-> end.lon,
                         volume |-> ship.volume, width |-> width,
                         name |-> ship.name]>>
                      \o rest.flows]

compute_positions(ports, ships) == PositionsFrom(ports, ships, 1)

\* routes, progress and volumes of the ships tables drawn
Routes == {<<"Zero", "Ten">>, <<"Houston", "Rotterdam">>,
           <<"Rotterdam", "Houston">>, <<"Houston", "Atlantis">>}
Progresses == {Float(0), Float(3000), Float(5000), Float(10000)}
Volumes == {Float(12000), Float(24000)}

ShipNames == <<"Crude Titan", "Sea Giant", "Ocean Star", "Black Pearl">>

\* load_ships: a ships.csv of up to MaxShips rows
InitShips ==
    /\ \E n \in 0..MaxShips :
         \E r \in [1..n -> Routes], g \in [1..n -> Progresses], v \in [1..n -> Volumes] :
            ships_df = [i \in 1..n |->
                           [name |-> ShipNames[i], from |-> r[i][1], to |-> r[i][2],
                            progress |-> g[i], volume |-> v[i]]]
    /\ ships_pos_df = <<>>
    /\ flows_df = <<>>
    /\ api_key = ""
    /\ auto_refresh = TRUE
    /\ pc = "idle"
    /\ now = 0
    /\ cache = EmptyCache
    /\ price_history = EmptyHistory
    /\ rows = <<>>
    /\ last = NoRun
    /\ prev = Brief(NoRun)
    /\ recorded = EmptyHistory
    /\ cleared = EmptyCache
    /\ origin = [k \in Keys |-> NoSource]
    /\ runs = 0
    /\ probe = <<>>

\* line 80: ships_pos_df, flows_df = compute_positions(ports_df, ships_df)
ComputePositions ==
    /\ ships_pos_df = <<>> /\ flows_df = <<>>
    /\ LET out == compute_positions(ports_df, ships_df)
       IN /\ ships_pos_df' = out.positions
          /\ flows_df' = out.flows
    /\ UNCHANGED <<api_key, auto_refresh, pc, now, cache, price_history,
                   rows, last, recorded, cleared, origin, prev, runs, probe,
                   ships_df>>

SpecShips == InitShips /\ [][ComputePositions]_vars

----------------------------------------------------------------------------
(* Properties *)

Min(a, b) == IF a < b THEN a ELSE b

\* the last run fetched and recorded (it got past line 228)
Cycle == last.kind = "cycle"

\* some sample has been evicted from the buffer of series s
Evicted(s) == Len(recorded[s]) > MAX_HISTORY

\* C1: after every run, whatever the fetches did, each buffer holds at most
\* MAX_HISTORY samples
C1_HistoryBounded ==
    \A s \in Series : Len(price_history[s]) <= MAX_HISTORY

\* a full buffer that has evicted, after a run whose fetch failed
C1_Witness ==
    /\ Cycle /\ last.result = None
    /\ Evicted("wti") /\ Len(price_history.wti) = MAX_HISTORY

\* C2: once more than MAX_HISTORY samples of a series have been recorded, its
\* buffer holds exactly the last MAX_HISTORY of them, in the order recorded
C2_LastSamplesKept ==
    \A s \in Series :
        Evicted(s) =>
            /\ Len(price_history[s]) = MAX_HISTORY
            /\ price_history[s] =
                 SubSeq(recorded[s], Len(recorded[s]) - MAX_HISTORY + 1, Len(recorded[s]))

\* the oldest sample of the session is gone and the newest is at the tail
C2_Witness ==
    /\ Evicted("wti") /\ Evicted("brent")
    /\ price_history.wti[1] # recorded.wti[1]
    /\ price_history.wti[MAX_HISTORY] = recorded.wti[Len(recorded.wti)]

\* C3: a run whose fetch failed (transport error, non-200 status, parse error,
\* or a cached failure) leaves both buffers as they were, so no sample, of
\* price 0 or other, is appended
C3_FailedFetchKeepsBuffers ==
    (Cycle /\ (last.fault \/ last.result = None)) =>
        /\ last.result = None
        /\ price_history = last.before

\* a status-500 fetch in a session whose buffers already hold samples
C3_Witness ==
    /\ Cycle /\ last.fault /\ last.branch = "status"
    /\ price_history.wti # <<>> /\ price_history.brent # <<>>

\* C4: when both responses are 200 and one body lacks its rate, the fetch
\* returns price 0 for that series marked as failed, and no sample is appended
\* to that series' buffer in that run
C4_MissingRateNotRecorded ==
    \A s \in Series :
        (Cycle /\ ~last.hit /\ last.src # NoSource /\ last.src[s].kind = "norate") =>
            /\ last.result # None
            /\ last.result[s].price = 0
            /\ ~last.result[s].success
            /\ price_history[s] = last.before[s]

\* series s succeeded in the fetch behind the last result: the fetch returned
\* a result and the body held the rate of s
Succeeded(s) == last.result # None /\ last.src[s].kind = "ok"

\* C5: the spread is shown exactly when both series succeeded in the fetch
\* result of the run, and is then the BRENT price minus the WTI price of that
\* one result
C5_SpreadOnlyWhenBothSucceeded ==
    Cycle =>
        /\ last.spread.shown <=> (Succeeded("wti") /\ Succeeded("brent"))
        /\ last.spread.shown =>
             /\ last.spread.value = last.result.brent.price - last.result.wti.price
             /\ last.result.brent.timestamp = last.result.wti.timestamp

\* C6: the table has max(len(wti), len(brent)) rows; row i has a WTI price iff
\* the WTI buffer has an entry i and a BRENT price iff the BRENT buffer has one;
\* its timestamp is that of the WTI entry i if there is one, else of the BRENT entry i
C6_TableMergesByIndex ==
    rows # <<>> =>
        /\ Len(rows) = Max(Len(price_history.wti), Len(price_history.brent))
        /\ \A i \in 1..Len(rows) :
             /\ rows[i].WTI # Blank <=> i <= Len(price_history.wti)
             /\ rows[i].Brent # Blank <=> i <= Len(price_history.brent)
             /\ i <= Len(price_history.wti) =>
                  /\ rows[i].WTI = format_price(price_history.wti[i].price)
                  /\ rows[i].Timestamp = StrfTime(price_history.wti[i].timestamp)
             /\ i <= Len(price_history.brent) =>
                  rows[i].Brent = format_price(price_history.brent[i].price)
             /\ i > Len(price_history.wti) =>
                  rows[i].Timestamp = StrfTime(price_history.brent[i].timestamp)

\* a table of buffers of different lengths whose first entries differ in time
C6_Witness ==
    /\ rows # <<>>
    /\ 0 < Len(price_history.wti)
    /\ Len(price_history.wti) < Len(price_history.brent)
    /\ price_history.wti[1].timestamp # price_history.brent[1].timestamp
    /\ rows[1].Timestamp # rows[Len(rows)].Timestamp

\* C7: in each buffer the timestamps never decrease from one sample to the next
C7_TimestampsNonDecreasing ==
    \A s \in Series :
        \A i \in 1..Len(price_history[s]) - 1 :
            price_history[s][i].timestamp <= price_history[s][i + 1].timestamp

\* a buffer that has evicted and whose newest sample re-records a cached result
C7_Witness ==
    /\ Cycle /\ last.hit /\ last.result # None
    /\ Evicted("wti")
    /\ price_history.wti[MAX_HISTORY].timestamp = last.at
    /\ price_history.wti[MAX_HISTORY - 1].timestamp < last.at

\* C8: the first fetch for a key after "Refresh Now" cleared the key's entry
\* issues requests and is not served from the cache, however young the
\* cleared entry was
C8_RefreshBypassesCache ==
    (Cycle /\ last.stale.present) =>
        /\ ~last.hit
        /\ last.issued >= 1

\* such a fetch, of an entry that had not yet lived 60 s
C8_Witness ==
    /\ Cycle /\ last.stale.present
    /\ last.at < last.stale.at + CACHE_DURATION
    /\ last.issued = 2

\* C9: a fetch for a key whose cache entry is less than 60 s old issues no
\* request and returns the cached value
C9_CachedWithinTtl ==
    (Cycle /\ last.entry.present /\ last.at < last.entry.at + CACHE_DURATION) =>
        /\ last.issued = 0
        /\ last.hit
        /\ last.result = last.entry.value

\* a run served, 20 s later, from the entry the run before it has stored
C9_Witness ==
    /\ Cycle /\ last.hit /\ last.issued = 0 /\ last.result # None
    /\ prev.kind = "cycle" /\ ~prev.hit
    /\ last.entry.at = prev.at /\ prev.at < last.at
    /\ last.result = prev.result

\* C10: two runs in a row that record the same prices at increasing times leave,
\* at the tail of each buffer, one sample for each run; the buffer is two longer
\* than before the first, or full
C10_ReplayAppendsTwice ==
    (/\ Cycle /\ prev.kind = "cycle"
     /\ last.result # None /\ prev.result # None
     /\ \A s \in Series : last.result[s].price = prev.result[s].price
     /\ prev.at < last.at) =>
        \A s \in Series :
            LET h == price_history[s]
                n == Len(h)
            IN /\ n = Min(MAX_HISTORY, prev.len[s] + 2)
               /\ h[n] = Sample(last.result[s].price, last.at)
               /\ h[n - 1] = Sample(prev.result[s].price, prev.at)
               /\ h[n] # h[n - 1]

\* a cached result recorded a second time into a full buffer
C10_Witness ==
    /\ Cycle /\ prev.kind = "cycle"
    /\ last.hit /\ last.result # None /\ last.result = prev.result
    /\ prev.at < last.at
    /\ prev.len.wti + 2 > MAX_HISTORY
    /\ Len(price_history.wti) = MAX_HISTORY

\* C13: a fetch result flags both series successful or is None, so the two
\* buffers always have the same length and, index by index, the same timestamps
C13_BuffersInStep ==
    /\ (Cycle /\ last.result # None) =>
          (last.result.wti.success /\ last.result.brent.success)
    /\ Len(price_history.wti) = Len(price_history.brent)
    /\ \A i \in 1..Len(price_history.wti) :
          price_history.wti[i].timestamp = price_history.brent[i].timestamp

\* full buffers that have evicted in step, the last fetch lacking the WTI rate only
C13_Witness ==
    /\ Cycle /\ ~last.hit /\ last.result # None
    /\ last.src.wti.kind = "norate" /\ last.src.brent.kind = "ok"
    /\ Evicted("wti") /\ Evicted("brent")
    /\ Len(price_history.wti) = MAX_HISTORY
    /\ price_history.wti[MAX_HISTORY].timestamp = last.at

\* the kinds of failure among the answers of one call
Causes(o) == {o.wr.kind, o.br.kind} \cap {"neterr", "http500", "badjson"}

\* the message fetch_oil_prices displays for a failure of kind c
MessageOf(c) == IF c = "neterr" THEN "network"
                ELSE IF c = "http500" THEN "status" ELSE "unexpected"

ShipOf(p) == ships_df[CHOOSE i \in 1..Len(ships_df) : ships_df[i].name = p.name]

\* C12: a ship at progress 0 is at its start port and a ship at progress 1 is
\* at its end port, in both coordinates; half way from (0, 0) to (10, 10) it
\* is at (5, 5)
C12_PositionBetweenPorts ==
    \A k \in 1..Len(ships_pos_df) :
        LET p == ships_pos_df[k]
            start == get_port_df(ports_df, p.from)
            end == get_port_df(ports_df, p.to)
        IN /\ ShipOf(p).progress = Float(0) =>
                 (p.lat = start.lat /\ p.lon = start.lon)
           /\ ShipOf(p).progress = Float(10000) =>
                 (p.lat = end.lat /\ p.lon = end.lon)
           /\ (p.from = "Zero" /\ p.to = "Ten" /\ ShipOf(p).progress = Float(5000)) =>
                 (p.lat = Float(50000) /\ p.lon = Float(50000))

====
